---- MODULE Spec2Model ----
(***************************************************************************)
(* Model of the AI-news auto publisher:                                    *)
(*   auto_publish.py  AutoPublisher (main, setup_taxonomy,                 *)
(*                    publish_daily_news, publish_multiple)                *)
(*   wp_publisher.py  WordPressPublisher (test_connection, create_post,    *)
(*                    create_category, create_tag)                         *)
(*   news_fetcher.py  AINewsFetcher (fetch_rss, fetch_all,                 *)
(*                    format_as_blog_post), NewsItem                       *)
(*                                                                         *)
(* Three specifications share the variables:                               *)
(*   Spec        the orchestrator and the sink calls it makes              *)
(*   SpecFetch   fetch_all over the feed sources                           *)
(*   SpecFormat  two invocations of format_as_blog_post                    *)
(* Time is an integer number of ticks; one tick is the resolution of the   *)
(* "%Y-%m-%d %H:%M" footer, and TicksPerDay ticks make a calendar day.     *)
(***************************************************************************)
EXTENDS Integers, Sequences, FiniteSets, TLC

\* ---------------------------------------------------------------- bounds
MaxCorpus == 5
MaxCount == 3
MaxPer == 2
MaxRuns == 2
MaxClock == 2
MaxEntries == 3

\* ------------------------------------------------------- program constants
NumTags == 5
TicksPerDay == 2
EntryCap == 20
SummaryCap == 500
BadTime == -2
BodySummaryCap == 200
FpSpace == 11
DefaultHours == 24

None == [kind |-> "None"]
NoDate == -1

VARIABLES
    now,            \* wall clock read by datetime.now()
    \* AutoPublisher / main
    pc,             \* position of the run
    args,           \* argparse namespace of main()
    call,           \* the method main() calls and its arguments
    connected,      \* outcome of test_connection in this run: "unknown", "yes", "no"
    ai_category_id, \* self.ai_category_id (0 is None)
    tag_ids,        \* self.tag_ids
    tax_calls,      \* create_category / create_tag requests sent in this run
    tag_n,          \* tag names setup_taxonomy has been through in this run
    all_items,      \* items returned by fetch_all
    count,          \* local count of publish_multiple
    i,              \* loop index of publish_multiple
    results,        \* local results of publish_multiple
    posts_log,      \* create_post requests of this run with the sink's status code
    ret,            \* value returned by the run
    success_count,  \* count printed by publish_multiple (-1 before it is computed)
    runs,           \* runs started on this AutoPublisher instance
    \* AINewsFetcher.fetch_all
    fpc,            \* position of fetch_all
    cutoff_time,    \* local cutoff_time
    src_i,          \* sources of RSS_SOURCES read so far
    feeds,          \* what feedparser.parse gave for each source read
    fetched,        \* what fetch_rss returned for each source read
    merged,         \* local all_items of fetch_all (filtered, not deduplicated)
    unique_items,   \* local unique_items as the deduplication loop leaves it
    corpus,         \* the list fetch_all returns
    \* format_as_blog_post called twice
    fmt_in, fmt_out

orchVars == <<pc, args, call, connected, ai_category_id, tag_ids, tax_calls, tag_n,
              all_items, count, i, results, posts_log, ret, success_count, runs>>
fetchVars == <<fpc, cutoff_time, src_i, feeds, fetched, merged, unique_items, corpus>>
fmtVars == <<fmt_in, fmt_out>>
vars == <<now, orchVars, fetchVars, fmtVars>>

\* ------------------------------------------------------------- helpers
Min(a, b) == IF a < b THEN a ELSE b

\* Python slice s[lo:hi] with 0-based, half-open bounds, clipped to the list
Slice(s, lo, hi) ==
    LET h == Min(hi, Len(s))
    IN  IF lo >= h THEN <<>> ELSE [j \in 1..(h - lo) |-> s[lo + j]]

Range(s) == {s[j] : j \in 1..Len(s)}

\* strftime("%Y年%m月%d日"): the calendar day of a timestamp
DateStr(t) == t \div TicksPerDay
\* strftime("%H:%M"): the time of day of a timestamp
TimeStr(t) == t % TicksPerDay

\* ------------------------------------------------------------ NewsItem
\* news_fetcher.py NewsItem; title and summary are sequences of words
NewsItem(title, link, summary, source, published) ==
    [title |-> title, link |-> link, summary |-> summary, source |-> source,
     published |-> published]

\* hashlib.md5(link)[:12]: a fixed digest of the link alone, with a smaller
\* range than its domain (distinct links may share a digest)
Fingerprint(link) == (7 * link + 3) % FpSpace

\* NewsItem.id
ItemId(item) == Fingerprint(item.link)

\* the first two entries of AINewsFetcher.RSS_SOURCES, in dict order
RSS_SOURCES == <<"Hacker News (AI)", "MIT Tech Review AI">>

\* -------------------------------------------------- format_as_blog_post
\* keys of by_source in insertion order
RECURSIVE SourceOrder(_)
SourceOrder(s) ==
    IF s = <<>> THEN <<>>
    ELSE LET rest == SourceOrder(Slice(s, 0, Len(s) - 1))
             last == s[Len(s)].source
         IN  IF last \in Range(rest) THEN rest ELSE Append(rest, last)

\* one <li> of the body
RenderItem(item) ==
    [link |-> item.link, title |-> item.title, time_str |-> TimeStr(item.published),
     summary |-> Slice(item.summary, 0, BodySummaryCap)]

by_source(s) ==
    [g \in 1..Len(SourceOrder(s)) |->
        [source |-> SourceOrder(s)[g],
         items |-> LET own == SelectSeq(s, LAMBDA it : it.source = SourceOrder(s)[g])
                   IN  [j \in 1..Len(own) |-> RenderItem(own[j])]]]

\* the footer line: datetime.now().strftime('%Y-%m-%d %H:%M')
Footer(clock) == <<DateStr(clock), TimeStr(clock)>>

\* format_as_blog_post(items, max_items, date) executed when the wall clock
\* reads clock; date = NoDate is the default date=None
format_as_blog_post(items, max_items, date, clock) ==
    LET d == IF date = NoDate THEN clock ELSE date
        date_str == DateStr(d)
        shown == Slice(items, 0, max_items)
    IN  [title |-> <<"AI Agent daily", date_str>>,
         content |-> [n |-> Len(shown), sections |-> by_source(shown),
                      footer |-> Footer(clock)],
         excerpt |-> [date_str |-> date_str, n |-> Len(shown)]]

\* --------------------------------------------------- WordPressPublisher
ProbeResponses == {200, 401, 0}          \* 0: the request raised
PostResponses == {201, 500}
TaxResponses == {"201", "400 term_exists, listed", "400 term_exists, not listed", "500"}

\* test_connection: True only for status 200; errors are caught
test_connection(resp) == resp = 200

\* create_post: the request data, and the post returned or the exception raised
PostData(title, content, excerpt, status, categories, tags) ==
    [title |-> title, content |-> content, status |-> status,
     categories |-> categories, tags |-> tags, excerpt |-> excerpt]

create_post(data, resp) ==
    IF resp = 201
    THEN [raised |-> FALSE, post |-> [link |-> data.title, status |-> data.status]]
    ELSE [raised |-> TRUE, error |-> resp]

\* create_category / create_tag: the term's id (0 for None), or raised
create_term(id, resp) ==
    CASE resp = "201" -> [raised |-> FALSE, id |-> id]
      [] resp = "400 term_exists, listed" -> [raised |-> FALSE, id |-> id]
      [] resp = "400 term_exists, not listed" -> [raised |-> FALSE, id |-> 0]
      [] OTHER -> [raised |-> TRUE, id |-> 0]

\* ids the sink keeps for the category and for the i-th tag name
CategoryId == 1
TagId(k) == 10 + k

\* --------------------------------------------------------- AutoPublisher
\* the corpus fetch_all hands to the orchestrator: n items with pairwise
\* distinct links and fingerprints, newest first (SpecFetch models fetch_all)
CorpusItem(k) ==
    NewsItem(<<"GPT">>, k, <<>>, RSS_SOURCES[1 + (k % Len(RSS_SOURCES))], 0)

Corpus(n) == [k \in 1..n |-> CorpusItem(k)]

EmptyList == [kind |-> "list", list |-> <<>>]

\* main(): the call made for the parsed arguments
main_call(a) ==
    IF a.mode = "daily"
    THEN [fn |-> "publish_daily_news", hours |-> a.hours, max_items |-> a.items,
          status |-> IF a.draft THEN "draft" ELSE "publish"]
    ELSE [fn |-> "publish_multiple", count |-> a.count, items_per_post |-> a.items,
          hours_per_batch |-> DefaultHours]

\* probe_gate without the early return
probe_gate_noabort(ok) == "create_category"

\* where a run goes after the probe: on, or out with the empty report
probe_gate(ok) == IF ok THEN "create_category" ELSE "returned"

\* batch_count without the reduction
batch_count_unreduced(n, cnt, items_per_post) == cnt

\* the reduced count of publish_multiple
batch_count(n, cnt, items_per_post) ==
    IF n < cnt * items_per_post THEN n \div items_per_post ELSE cnt

\* batch_items with start_idx = i
batch_items_overlap(items, idx, items_per_post) ==
    Slice(items, idx, idx + items_per_post)

\* all_items[start_idx:end_idx] of iteration idx (0-based)
batch_items(items, idx, items_per_post) ==
    Slice(items, idx * items_per_post, idx * items_per_post + items_per_post)

\* the status publish_multiple passes to create_post
batch_status(c) == "publish"

\* results.append(...) after one submission
batch_result(r) == IF r.raised THEN [error |-> r.error] ELSE r.post

\* SuccessCount counting every result
SuccessCount_all(rs) == Len(rs)

\* len([r for r in results if "error" not in r])
SuccessCount(rs) == Cardinality({j \in 1..Len(rs) : "error" \notin DOMAIN rs[j]})

Args == [mode : {"daily", "batch"}, hours : {DefaultHours}, count : 0..MaxCount,
         items : 1..MaxPer, draft : BOOLEAN]

main(a) ==
    /\ pc = "idle"
    /\ runs < MaxRuns
    /\ args' = a
    /\ call' = main_call(a)
    /\ runs' = runs + 1
    /\ pc' = "test_connection"
    /\ UNCHANGED <<now, connected, ai_category_id, tag_ids, tax_calls, tag_n, all_items,
                   count, i, results, posts_log, ret, success_count, fetchVars, fmtVars>>

probe(resp) ==
    /\ pc = "test_connection"
    /\ connected' = IF test_connection(resp) THEN "yes" ELSE "no"
    /\ pc' = probe_gate(test_connection(resp))
    /\ ret' = IF test_connection(resp) \/ call.fn = "publish_daily_news"
              THEN None ELSE EmptyList
    /\ UNCHANGED <<now, args, call, ai_category_id, tag_ids, tax_calls, tag_n, all_items,
                   count, i, results, posts_log, success_count, runs, fetchVars, fmtVars>>

\* setup_taxonomy, the category: category["id"] of None raises as well
setup_category(resp) ==
    /\ pc = "create_category"
    /\ tax_calls' = tax_calls + 1
    /\ LET r == create_term(CategoryId, resp)
       IN  IF r.raised \/ r.id = 0
           THEN /\ pc' = "raised"
                /\ UNCHANGED ai_category_id
           ELSE /\ pc' = "create_tag"
                /\ ai_category_id' = r.id
    /\ UNCHANGED <<now, args, call, connected, tag_ids, tag_n, all_items, count, i,
                   results, posts_log, ret, success_count, runs, fetchVars, fmtVars>>

\* setup_taxonomy, one pass of the loop over tag_names
setup_tag(resp) ==
    /\ pc = "create_tag"
    /\ tax_calls' = tax_calls + 1
    /\ LET r == create_term(TagId(tag_n + 1), resp)
       IN  IF r.raised \/ r.id = 0
           THEN /\ pc' = "raised"
                /\ UNCHANGED <<tag_ids, tag_n>>
           ELSE /\ tag_ids' = Append(tag_ids, r.id)
                /\ tag_n' = tag_n + 1
                /\ pc' = IF tag_n + 1 = NumTags THEN "fetch_all" ELSE "create_tag"
    /\ UNCHANGED <<now, args, call, connected, ai_category_id, all_items, count, i,
                   results, posts_log, ret, success_count, runs, fetchVars, fmtVars>>

\* items = fetch_all(...), and what each mode does with the corpus first
fetch(n) ==
    /\ pc = "fetch_all"
    /\ all_items' = Corpus(n)
    /\ IF call.fn = "publish_daily_news"
       THEN /\ pc' = IF n = 0 THEN "returned" ELSE "daily_post"
            /\ UNCHANGED count
       ELSE /\ pc' = "batch_loop"
            /\ count' = batch_count(n, call.count, call.items_per_post)
    /\ UNCHANGED <<now, args, call, connected, ai_category_id, tag_ids, tax_calls, tag_n,
                   i, results, posts_log, ret, success_count, runs, fetchVars, fmtVars>>

\* publish_daily_news from the format step to the return
daily_post(resp) ==
    /\ pc = "daily_post"
    /\ LET doc == format_as_blog_post(all_items, call.max_items, NoDate, now)
           data == PostData(doc.title, doc.content, doc.excerpt, call.status,
                            <<ai_category_id>>, tag_ids)
           r == create_post(data, resp)
       IN  /\ posts_log' = Append(posts_log, [data |-> data, resp |-> resp,
                                              items |-> Slice(all_items, 0, call.max_items)])
           /\ IF r.raised
              THEN /\ pc' = "raised"
                   /\ UNCHANGED ret
              ELSE /\ pc' = "returned"
                   /\ ret' = [kind |-> "post", post |-> r.post]
    /\ UNCHANGED <<now, args, call, connected, ai_category_id, tag_ids, tax_calls, tag_n,
                   all_items, count, i, results, success_count, runs, fetchVars, fmtVars>>

\* one iteration of the loop of publish_multiple
batch_post(resp) ==
    /\ pc = "batch_loop"
    /\ i < count
    /\ batch_items(all_items, i, call.items_per_post) # <<>>
    /\ LET items == batch_items(all_items, i, call.items_per_post)
           doc == format_as_blog_post(items, call.items_per_post, NoDate, now)
           title == <<"AI Agent express", i + 1, DateStr(now)>>
           data == PostData(title, doc.content, doc.excerpt, batch_status(call),
                            <<ai_category_id>>, tag_ids)
           r == create_post(data, resp)
       IN  /\ posts_log' = Append(posts_log, [data |-> data, resp |-> resp, items |-> items])
           /\ results' = Append(results, batch_result(r))
    /\ i' = i + 1
    /\ UNCHANGED <<now, pc, args, call, connected, ai_category_id, tag_ids, tax_calls, tag_n,
                   all_items, count, ret, success_count, runs, fetchVars, fmtVars>>

\* the loop of publish_multiple ends (range exhausted, or break on an empty
\* slice) and the report is returned
batch_return ==
    /\ pc = "batch_loop"
    /\ \/ i >= count
       \/ batch_items(all_items, i, call.items_per_post) = <<>>
    /\ success_count' = SuccessCount(results)
    /\ ret' = [kind |-> "list", list |-> results]
    /\ pc' = "returned"
    /\ UNCHANGED <<now, args, call, connected, ai_category_id, tag_ids, tax_calls, tag_n,
                   all_items, count, i, results, posts_log, runs, fetchVars, fmtVars>>

\* the run is over (returned, or left by an uncaught exception); the
\* AutoPublisher instance keeps ai_category_id and tag_ids
run_end ==
    /\ pc \in {"returned", "raised"}
    /\ pc' = "idle"
    /\ connected' = "unknown"
    /\ tax_calls' = 0
    /\ tag_n' = 0
    /\ all_items' = <<>>
    /\ count' = 0
    /\ i' = 0
    /\ results' = <<>>
    /\ posts_log' = <<>>
    /\ ret' = None
    /\ success_count' = -1
    /\ UNCHANGED <<now, args, call, ai_category_id, tag_ids, runs, fetchVars, fmtVars>>

\* the wall clock advances while a run is in progress
tick ==
    /\ pc \notin {"idle", "returned", "raised"}
    /\ now < MaxClock
    /\ now' = now + 1
    /\ UNCHANGED <<orchVars, fetchVars, fmtVars>>

NoFetch ==
    /\ fpc = "off" /\ cutoff_time = 0 /\ src_i = 0 /\ feeds = <<>> /\ fetched = <<>>
    /\ merged = <<>> /\ unique_items = <<>> /\ corpus = <<>>

NoFormat == fmt_in = <<>> /\ fmt_out = <<>>

NoRun ==
    /\ pc = "idle" /\ connected = "unknown" /\ ai_category_id = 0 /\ tag_ids = <<>>
    /\ tax_calls = 0 /\ tag_n = 0 /\ all_items = <<>> /\ count = 0 /\ i = 0
    /\ results = <<>> /\ posts_log = <<>> /\ ret = None /\ success_count = -1 /\ runs = 0
    /\ args = [mode |-> "daily", hours |-> DefaultHours, count |-> 0, items |-> 1,
               draft |-> FALSE]
    /\ call = main_call(args)

Init == now = 1 /\ NoRun /\ NoFetch /\ NoFormat

Next ==
    \/ \E a \in Args : main(a)
    \/ \E resp \in ProbeResponses : probe(resp)
    \/ \E resp \in TaxResponses : setup_category(resp)
    \/ \E resp \in TaxResponses : setup_tag(resp)
    \/ \E n \in 0..MaxCorpus : fetch(n)
    \/ \E resp \in PostResponses : daily_post(resp)
    \/ \E resp \in PostResponses : batch_post(resp)
    \/ batch_return
    \/ run_end
    \/ tick

Spec == Init /\ [][Next]_vars

\* ================================================================ claims
BatchRunReturned ==
    pc = "returned" /\ call.fn = "publish_multiple" /\ connected = "yes"

\* the batches a corpus of n items yields for a requested count and size
Batches(n, cnt, k) == Min(cnt, n \div k)

\* C1: when test_connection returns False, the run sends no create_post,
\* create_category or create_tag request and ends at once with the empty
\* report (None from publish_daily_news, [] from publish_multiple).
C1_UnreachableAborts ==
    connected = "no" =>
        /\ pc = "returned"
        /\ posts_log = <<>>
        /\ tax_calls = 0
        /\ ret = IF call.fn = "publish_daily_news" THEN None ELSE EmptyList

C1_Witness ==
    /\ connected = "no" /\ pc = "returned" /\ call.fn = "publish_multiple"
    /\ ret = EmptyList /\ runs = 2

\* C2: once the probe has succeeded, the run never ends by an uncaught
\* exception (it always reaches its return).
C2_RunAlwaysCompletes == connected = "yes" => pc # "raised"

\* C3: publish_multiple submits every batch exactly once whatever the sink
\* answers, and returns one entry per batch in batch order: the sink's post
\* where the submission succeeded, an error record where it failed; the
\* printed success count is the number of posts among them.
C3_BatchResults ==
    BatchRunReturned =>
        LET nb == Batches(Len(all_items), call.count, call.items_per_post)
        IN  /\ Len(posts_log) = nb
            /\ Len(results) = nb
            /\ ret = [kind |-> "list", list |-> results]
            /\ \A j \in 1..nb :
                  /\ posts_log[j].data.title[2] = j
                  /\ posts_log[j].items = batch_items(all_items, j - 1, call.items_per_post)
                  /\ results[j] = IF posts_log[j].resp = 201
                                  THEN [link |-> posts_log[j].data.title,
                                        status |-> posts_log[j].data.status]
                                  ELSE [error |-> posts_log[j].resp]
            /\ success_count = Cardinality({j \in 1..nb : posts_log[j].resp = 201})

C3_Witness ==
    /\ BatchRunReturned
    /\ Len(results) = 3
    /\ "error" \in DOMAIN results[1]
    /\ "error" \notin DOMAIN results[2]
    /\ "error" \in DOMAIN results[3]
    /\ success_count = 1

\* C4 as stated: a batch run over N items with batch size k submits exactly
\* floor(N/k) batch documents.
C4_FloorBatches ==
    BatchRunReturned => Len(posts_log) = Len(all_items) \div call.items_per_post

\* C4 amended: a batch run over N items with batch size k and requested count
\* c submits exactly min(c, floor(N/k)) batch documents, each built from
\* exactly k items, the j-th from the j-th consecutive slice of the corpus,
\* and no corpus item is in two of them.
C4_MinCountFloorBatches ==
    BatchRunReturned =>
        LET k == call.items_per_post
        IN  /\ Len(posts_log) = Batches(Len(all_items), call.count, k)
            /\ \A j \in 1..Len(posts_log) :
                  /\ Len(posts_log[j].items) = k
                  /\ posts_log[j].data.content.n = k
                  /\ \A m \in 1..k : posts_log[j].items[m] = all_items[(j - 1) * k + m]
            /\ \A j1, j2 \in 1..Len(posts_log) :
                  j1 # j2 => Range(posts_log[j1].items) \cap Range(posts_log[j2].items) = {}

C4_Witness ==
    /\ BatchRunReturned
    /\ Len(all_items) = 5 /\ call.items_per_post = 2 /\ call.count = 1
    /\ Len(posts_log) = 1

\* C5: when the corpus holds fewer than count * items_per_post items, the
\* run produces floor(len(corpus) / items_per_post) batches and returns as
\* many results, submits no batch shorter than items_per_post, and the
\* remainder of the corpus is in no submitted document.
C5_ShortCorpus ==
    (BatchRunReturned /\ Len(all_items) < call.count * call.items_per_post) =>
        LET k == call.items_per_post
            nb == Len(all_items) \div k
        IN  /\ count = nb
            /\ Len(posts_log) = nb
            /\ ret.kind = "list" /\ Len(ret.list) = nb
            /\ \A j \in 1..Len(posts_log) : Len(posts_log[j].items) = k
            /\ \A m \in (nb * k + 1)..Len(all_items) :
                  \A j \in 1..Len(posts_log) : all_items[m] \notin Range(posts_log[j].items)

C5_Witness ==
    /\ BatchRunReturned
    /\ Len(all_items) = 5 /\ call.items_per_post = 2 /\ call.count = 3
    /\ Len(ret.list) = 2

\* C9: every document a run submits carries the run's configured publish
\* state: draft when --draft was given, publish otherwise.
C9_ConfiguredState ==
    \A j \in 1..Len(posts_log) :
        posts_log[j].data.status = IF args.draft THEN "draft" ELSE "publish"

\* ================================================== format_as_blog_post x 2
FormatInputs ==
    [items : {Corpus(n) : n \in 0..MaxCorpus}, max_items : 1..MaxPer,
     date : {NoDate} \cup 0..MaxClock]

InitFormat ==
    /\ now = 0 /\ NoRun /\ NoFetch
    /\ fmt_in \in FormatInputs
    /\ fmt_out = <<>>

\* one invocation of format_as_blog_post on the inputs, at the current time
format_call ==
    /\ Len(fmt_out) < 2
    /\ fmt_out' = Append(fmt_out, format_as_blog_post(fmt_in.items, fmt_in.max_items,
                                                      fmt_in.date, now))
    /\ UNCHANGED <<now, fmt_in, orchVars, fetchVars>>

format_tick ==
    /\ now < MaxClock
    /\ now' = now + 1
    /\ UNCHANGED <<fmtVars, orchVars, fetchVars>>

NextFormat == format_call \/ format_tick

SpecFormat == InitFormat /\ [][NextFormat]_vars

\* C10: two invocations of format_as_blog_post on the same items, max_items
\* and date argument return the same title, body and excerpt, whenever each
\* of them runs.
C10_FormatDeterministic ==
    (Len(fmt_out) = 2 /\ fmt_in.date # NoDate) => fmt_out[1] = fmt_out[2]

\* C10, second half: the batch titles of one publish_multiple run all carry
\* the same date.
C10_BatchTitlesOneDate ==
    \A j1, j2 \in 1..Len(posts_log) :
        call.fn = "publish_multiple" => posts_log[j1].data.title[3] = posts_log[j2].data.title[3]

\* ============================================================ fetch_all
\* a subset of AINewsFetcher.KEYWORDS
KEYWORDS == {"agent", "llm", "gpt", "claude"}

\* str.lower() on the words the model uses
Lower(w) == CASE w = "GPT" -> "gpt" [] w = "Claude" -> "claude" [] OTHER -> w

\* _is_relevant: some keyword occurs in the lower-cased title and summary
is_relevant(item) ==
    \E w \in Range(item.title) \cup Range(item.summary) : Lower(w) \in KEYWORDS

\* the time test of fetch_all with > for >=
in_window_strict(item, cutoff) == item.published > cutoff

\* the time test of fetch_all
in_window(item, cutoff) == item.published >= cutoff

\* entries feedparser can hand over: published_parsed is a time, absent
\* (NoDate), or a value datetime(...) rejects (BadTime)
DatedEntries ==
    [title : {<<"GPT">>, <<"weather">>}, link : {1, 2}, summary : {<<>>},
     published_parsed : {0, 1}]

UndatedEntry == [title |-> <<"GPT">>, link |-> 1, summary |-> <<>>, published_parsed |-> NoDate]

BadEntry == [title |-> <<"GPT">>, link |-> 2, summary |-> <<>>, published_parsed |-> BadTime]

\* a third link, so that a corpus can hold a tie next to a distinct timestamp
ThirdEntry == [title |-> <<"GPT">>, link |-> 3, summary |-> <<>>, published_parsed |-> 1]

GoodEntries == DatedEntries \cup {UndatedEntry, ThirdEntry}

RawEntries == GoodEntries \cup {BadEntry}

Raises(entry) == entry.published_parsed = BadTime

\* the body of the loop of fetch_rss for an entry that does not raise
normalize(entry, source_name, clock) ==
    NewsItem(entry.title, entry.link, Slice(entry.summary, 0, SummaryCap), source_name,
             IF entry.published_parsed = NoDate THEN clock ELSE entry.published_parsed)

\* fetch_rss: the items built before the first exception, if any
fetch_rss(feed, source_name, clock) ==
    IF ~feed.parse_ok THEN <<>>
    ELSE LET entries == Slice(feed.entries, 0, EntryCap)
             bad == {j \in 1..Len(entries) : Raises(entries[j])}
             stop == IF bad = {} THEN Len(entries) + 1
                     ELSE CHOOSE j \in bad : \A m \in bad : j <= m
         IN  [j \in 1..(stop - 1) |-> normalize(entries[j], source_name, clock)]

\* one pass of the deduplication loop that forgets to record the id
dedup_step_unrecorded(st, item) ==
    IF ItemId(item) \notin st.seen
    THEN [seen |-> st.seen, unique_items |-> Append(st.unique_items, item)]
    ELSE st

\* one pass of the deduplication loop
dedup_step(st, item) ==
    IF ItemId(item) \notin st.seen
    THEN [seen |-> st.seen \cup {ItemId(item)},
          unique_items |-> Append(st.unique_items, item)]
    ELSE st

RECURSIVE dedup_loop(_)
dedup_loop(s) ==
    IF s = <<>> THEN [seen |-> {}, unique_items |-> <<>>]
    ELSE dedup_step(dedup_loop(Slice(s, 0, Len(s) - 1)), s[Len(s)])

\* insert_desc placing an item before the items of equal published
insert_desc_unstable(sorted, x) ==
    LET n == Cardinality({j \in 1..Len(sorted) : sorted[j].published > x.published})
    IN  SubSeq(sorted, 1, n) \o <<x>> \o SubSeq(sorted, n + 1, Len(sorted))

\* list.sort(key=published, reverse=True): stable, newest first
insert_desc(sorted, x) ==
    LET n == Cardinality({j \in 1..Len(sorted) : sorted[j].published >= x.published})
    IN  SubSeq(sorted, 1, n) \o <<x>> \o SubSeq(sorted, n + 1, Len(sorted))

RECURSIVE sort_desc(_)
sort_desc(s) ==
    IF s = <<>> THEN <<>>
    ELSE insert_desc(sort_desc(Slice(s, 0, Len(s) - 1)), s[Len(s)])

RECURSIVE TotalLen(_)
TotalLen(ss) == IF ss = <<>> THEN 0 ELSE Len(ss[1].entries) + TotalLen(Tail(ss))

EntrySeqs(n) == UNION {[1..m -> RawEntries] : m \in 0..n}

Feeds(n) ==
    {[parse_ok |-> TRUE, entries |-> es] : es \in EntrySeqs(n)}
        \cup {[parse_ok |-> FALSE, entries |-> <<>>]}

Windows == {2}

InitFetch ==
    /\ now = 3 /\ NoRun /\ NoFormat
    /\ fpc = "start" /\ cutoff_time = 0 /\ src_i = 0 /\ feeds = <<>> /\ fetched = <<>>
    /\ merged = <<>> /\ unique_items = <<>> /\ corpus = <<>>

\* fetch_all up to the loop over the sources
fetch_begin(hours) ==
    /\ fpc = "start"
    /\ cutoff_time' = now - hours
    /\ fpc' = "sources"
    /\ UNCHANGED <<now, src_i, feeds, fetched, merged, unique_items, corpus, orchVars, fmtVars>>

\* one pass of the loop over RSS_SOURCES: fetch_rss, then the two filters
fetch_source(feed) ==
    /\ fpc = "sources"
    /\ src_i < Len(RSS_SOURCES)
    /\ LET items == fetch_rss(feed, RSS_SOURCES[src_i + 1], now)
       IN  /\ fetched' = Append(fetched, items)
           /\ merged' = merged \o SelectSeq(items, LAMBDA it :
                            in_window(it, cutoff_time) /\ is_relevant(it))
    /\ feeds' = Append(feeds, feed)
    /\ src_i' = src_i + 1
    /\ UNCHANGED <<now, fpc, cutoff_time, unique_items, corpus, orchVars, fmtVars>>

\* fetch_all after the loop: deduplicate, sort, return
fetch_finish ==
    /\ fpc = "sources"
    /\ src_i = Len(RSS_SOURCES)
    /\ unique_items' = dedup_loop(merged).unique_items
    /\ corpus' = sort_desc(dedup_loop(merged).unique_items)
    /\ fpc' = "done"
    /\ UNCHANGED <<now, cutoff_time, src_i, feeds, fetched, merged, orchVars, fmtVars>>

NextFetch ==
    \/ \E hours \in Windows : fetch_begin(hours)
    \/ \E feed \in Feeds(MaxEntries - TotalLen(feeds)) : fetch_source(feed)
    \/ fetch_finish

SpecFetch == InitFetch /\ [][NextFetch]_vars

\* --------------------------------------------------- claims on fetch_all
RECURSIVE Flatten(_)
Flatten(ss) == IF ss = <<>> THEN <<>> ELSE ss[1] \o Flatten(Tail(ss))

\* the two filters as the specification words them: a keyword in title or
\* summary in any letter case, and published not before the cutoff
HasKeyword(x) ==
    \E w \in Range(x.title) \cup Range(x.summary) : w \in {"GPT", "gpt", "Claude", "claude",
                                                          "agent", "llm"}

PassesBoth(x) == HasKeyword(x) /\ x.published >= cutoff_time

\* positions of s holding the first item with their fingerprint
FirstPositions(s) ==
    {p \in 1..Len(s) : \A q \in 1..(p - 1) : ItemId(s[q]) # ItemId(s[p])}

\* the j-th smallest member of a set of positions
NthPosition(P, j) == CHOOSE p \in P : Cardinality({q \in P : q <= p}) = j

\* C6: the deduplication of fetch_all outputs items with pairwise distinct
\* fingerprints: for each fingerprint of its input exactly the first item
\* in fetch order that carries it, in the order of these first occurrences.
C6_DedupFirstWins ==
    fpc = "done" =>
        /\ \A a, b \in 1..Len(unique_items) :
              a # b => ItemId(unique_items[a]) # ItemId(unique_items[b])
        /\ Len(unique_items) = Cardinality(FirstPositions(merged))
        /\ \A j \in 1..Len(unique_items) :
              unique_items[j] = merged[NthPosition(FirstPositions(merged), j)]

C6_Witness ==
    /\ fpc = "done"
    /\ Len(merged) = 3 /\ Len(unique_items) = 2
    /\ merged[1].link = merged[3].link
    /\ merged[1].source # merged[3].source
    /\ merged[1].published # merged[3].published
    /\ ItemId(merged[2]) # ItemId(merged[1])
    /\ unique_items = <<merged[1], merged[2]>>

\* C7 as stated: an item fetch_rss returned is in the corpus fetch_all
\* returns iff it passes the relevance filter and the time-window filter.
C7_FilterConjunction ==
    fpc = "done" =>
        \A x \in Range(Flatten(fetched)) : x \in Range(corpus) <=> PassesBoth(x)

\* C7 amended: an item fetch_rss returned is in the corpus iff it passes both
\* filters and is the first item in fetch order, among those passing both,
\* that carries its fingerprint.
C7_FilterConjunctionFirst ==
    fpc = "done" =>
        LET passing == SelectSeq(Flatten(fetched), PassesBoth)
        IN  \A x \in Range(Flatten(fetched)) :
                x \in Range(corpus) <=>
                    /\ PassesBoth(x)
                    /\ \E p \in FirstPositions(passing) : passing[p] = x

C7_Witness ==
    /\ fpc = "done"
    /\ Len(Flatten(fetched)) = 3
    /\ Len(corpus) = 1
    /\ PassesBoth(Flatten(fetched)[1]) /\ Flatten(fetched)[1] \in Range(corpus)
    /\ PassesBoth(Flatten(fetched)[2]) /\ Flatten(fetched)[2] \notin Range(corpus)
    /\ Flatten(fetched)[2].published = cutoff_time
    /\ ~PassesBoth(Flatten(fetched)[3])

\* C8: an entry whose normalization raises is the only entry its source
\* loses: fetch_rss returns the items of all the other entries of the feed, in
\* order, and the sources after it are read.
C8_OnlyBadEntrySkipped ==
    /\ \A s \in 1..Len(feeds) :
          feeds[s].parse_ok =>
              LET good == SelectSeq(feeds[s].entries, LAMBDA e : ~Raises(e))
              IN  fetched[s] = [j \in 1..Len(good) |-> normalize(good[j], RSS_SOURCES[s], now)]
    /\ fpc = "done" => Len(fetched) = Len(RSS_SOURCES)

\* position of an item in a list of items with pairwise distinct fingerprints
PosIn(s, x) == CHOOSE p \in 1..Len(s) : s[p] = x

\* C11: the corpus fetch_all returns holds the deduplicated items sorted by
\* published, newest first, and items of equal published keep the order the
\* deduplication gave them.
C11_StableNewestFirst ==
    fpc = "done" =>
        /\ Len(corpus) = Len(unique_items)
        /\ Range(corpus) = Range(unique_items)
        /\ \A a, b \in 1..Len(corpus) :
              a < b =>
                  /\ corpus[a].published >= corpus[b].published
                  /\ corpus[a].published = corpus[b].published =>
                        PosIn(unique_items, corpus[a]) < PosIn(unique_items, corpus[b])

C11_Witness ==
    /\ fpc = "done"
    /\ Len(unique_items) = 3
    /\ unique_items[1].published = unique_items[3].published
    /\ unique_items[2].published > unique_items[1].published
    /\ corpus = <<unique_items[2], unique_items[1], unique_items[3]>>

\* C12: every document submitted carries exactly the tag ids this run's
\* setup_taxonomy resolved, one per configured tag name, however many runs
\* the AutoPublisher instance has been through.
C12_TagsOfThisRun ==
    \A j \in 1..Len(posts_log) :
        posts_log[j].data.tags = [k \in 1..NumTags |-> TagId(k)]

====
